---- MODULE Spec2Model ----
(***************************************************************************)
(* The quiz / secure-exam session state machine of adaptive-scholar.       *)
(*                                                                         *)
(* Two React components are modelled:                                      *)
(*   SecureExam (src/src/pages/AdminAnalytics.tsx, 483-950), under         *)
(*     ExamMonitorSpec (the security monitor's events, no answers),        *)
(*     ExamSheetSpec (the student's answers, no security events) and       *)
(*     ExamClipboardSpec (copy, paste and the context menu, with tab       *)
(*     switches);                                                          *)
(*   QuizView (src/unnamed/part_007), under QuizSpec (pools of up to two   *)
(*     questions) and QuizRetrySpec (a pool of four questions).            *)
(*                                                                         *)
(* Three computations of the pages are also applied on their own, to       *)
(* arguments held in args with the value returned in result:               *)
(*   the scoring of an answer sheet, under ScoreSpec;                      *)
(*   the points and level a passing submission writes, under LevelSpec;    *)
(*   the session startQuiz builds from the pool, under BuildSpec;          *)
(*   the counts the setup view offers, under OptionsSpec.                  *)
(*                                                                         *)
(* React semantics the model relies on:                                    *)
(*  - a handler, an effect callback or a timer callback is a closure over  *)
(*    the state of the render that created it (a "Render" record below);   *)
(*    an effect re-subscribes, with the closure of the new render, only    *)
(*    when one of its dependencies changed;                                *)
(*  - onClick handlers always belong to the latest committed render;       *)
(*  - an async handler is split at its awaits: the part up to the first    *)
(*    await runs with the event, each continuation is a later step and     *)
(*    still reads the state captured when the handler was called;          *)
(*  - a state setter called after the component unmounted does nothing.    *)
(* time_taken_seconds of an attempt row is not modelled.                   *)
(***************************************************************************)
EXTENDS Integers, Sequences, FiniteSets, Bags, TLC

(***************************************************************************)
(* Bounds of the model.                                                    *)
(***************************************************************************)
\* ticks of the secure exam's countdown (the code starts at 1800 seconds)
ExamTicks == 2
\* visibilitychange-to-hidden events the environment delivers in one session
MaxTabSwitches == 4
\* handleSecurityViolation calls whose update may be in flight together
MaxInFlight == 2
\* ticks of the quiz's countdown (the code starts at timerMinutes * 60 seconds)
QuizTicks == 2
\* quiz sessions one visit of the page starts (the first and the retries)
MaxSessions == 2
\* questions of the largest sheet that is scored on its own
MaxQuestions == 40
\* the largest pool a session is built from on its own
MaxPool == 6
\* the largest pool size the select's options are listed for
MaxTotal == 60

(***************************************************************************)
(* Program constants.                                                      *)
(***************************************************************************)
\* newCount >= 3 flags the session
ViolationThreshold == 3
\* points of a question when the row has none
DefaultPoints == 10
\* quizzes.passing_score
PassingScore == 70
\* total_points that make a beginner intermediate, an intermediate advanced
IntermediateAt == 500
AdvancedAt == 1500
\* priority of a remedial recommendation
RecommendationPriority == 10

(***************************************************************************)
(* The quiz content: question ids in order_index order, two options each.  *)
(***************************************************************************)
QuestionIds == 1..MaxQuestions
OptionIdx == {0, 1}
correct_answer == [q \in QuestionIds |-> IF q = 1 THEN 0 ELSE 1]
\* every third question has points of its own, the others the default
points == [q \in QuestionIds |-> IF q % 3 = 0 THEN DefaultPoints \div 2 ELSE DefaultPoints]
\* the pools a quiz may hold when the page loads
Pools == {<<>>, <<1, 2>>}
\* an AnswerMap is a function from the answered question ids to option indices
EmptyAnswers == [q \in {} |-> 0]
\* { ...answers, [questionId]: answerIndex }  /  new Map(m).set(questionId, answerIndex)
WithAnswer(ans, questionId, answerIndex) ==
    [q \in DOMAIN ans \cup {questionId} |->
        IF q = questionId THEN answerIndex ELSE ans[q]]

NoSession == [null |-> TRUE]
NoClosure == [detached |-> TRUE]
NoRow == [no_row |-> TRUE]
\* null, and a value v that may be null: <<v>>
Null == << >>

Range(s) == {s[i] : i \in 1..Len(s)}

RECURSIVE SumOver(_, _)
SumOver(f, S) ==
    IF S = {} THEN 0
    ELSE LET x == CHOOSE y \in S : TRUE IN f[x] + SumOver(f, S \ {x})

(***************************************************************************)
(* Math.round((n / d) * 100) in IEEE 754 binary64, as JavaScript computes  *)
(* it: the quotient is rounded to 53 significant bits (to nearest, ties to *)
(* even), so is the product, and Math.round takes the nearest integer, a   *)
(* half going up.  A number is kept as [m |-> <<hi, l1, l2, l3, l4>>,      *)
(* shift |-> s]: its value is M * 2^-(52 + s), where M is hi * 2^52 plus   *)
(* the four 13-bit limbs l1..l4, l4 the lowest.                            *)
(***************************************************************************)
LimbBits == 13

RECURSIVE Pow2(_)
Pow2(k) == IF k = 0 THEN 1 ELSE 2 * Pow2(k - 1)

Limb == Pow2(LimbBits)

\* the number of binary digits of a natural number
RECURSIVE BitLen(_)
BitLen(k) == IF k = 0 THEN 0 ELSE 1 + BitLen(k \div 2)

\* the limbs m with the carries moved up, from limb i down to the first
RECURSIVE Normalize(_, _)
Normalize(m, i) ==
    IF i = 1 THEN m
    ELSE Normalize([m EXCEPT ![i] = m[i] % Limb, ![i - 1] = m[i - 1] + m[i] \div Limb],
                   i - 1)

\* the least s with n * 2^s >= d
RECURSIVE ShiftTo(_, _)
ShiftTo(n, d) == IF n >= d THEN 0 ELSE 1 + ShiftTo(2 * n, d)

\* n / d for 0 < n <= d: 1 and the next 52 binary digits of n * 2^s / d, rounded
\* on the remainder they leave
DoubleQuotient(n, d) ==
    LET s == ShiftTo(n, d)
        r0 == n * Pow2(s) - d
        r1 == (r0 * Limb) % d
        r2 == (r1 * Limb) % d
        r3 == (r2 * Limb) % d
        r4 == (r3 * Limb) % d
        l4 == (r3 * Limb) \div d
        up == 2 * r4 > d \/ (2 * r4 = d /\ l4 % 2 = 1)
    IN  [m |-> Normalize(<<1, (r0 * Limb) \div d, (r1 * Limb) \div d,
                           (r2 * Limb) \div d, l4 + (IF up THEN 1 ELSE 0)>>, 5),
         shift |-> s]

\* x * k for a natural k below 2^13: the exact product, rounded to the 53
\* binary digits from its first one
DoubleTimes(x, k) ==
    LET p == Normalize([i \in 1..5 |-> x.m[i] * k], 5)
        extra == BitLen(p[1]) - 1
        dropped == p[5] % Pow2(extra)
        half == IF extra = 0 THEN 0 ELSE Pow2(extra - 1)
        up == extra > 0 /\ (dropped > half
                            \/ (dropped = half /\ (p[5] \div Pow2(extra)) % 2 = 1))
    IN  [m |-> Normalize([p EXCEPT ![5] = p[5] - dropped
                                          + (IF up THEN Pow2(extra) ELSE 0)], 5),
         shift |-> x.shift]

\* Math.round(x): floor(x) plus the digit of weight 1/2
MathRound(x) ==
    (x.m[1] \div Pow2(x.shift))
    + (IF x.shift = 0 THEN x.m[2] \div Pow2(LimbBits - 1)
       ELSE (x.m[1] \div Pow2(x.shift - 1)) % 2)

\* Math.round((n / d) * 100) for 0 <= n <= d, d > 0
RoundPercent(n, d) ==
    IF n = 0 THEN 0 ELSE MathRound(DoubleTimes(DoubleQuotient(n, d), 100))

VARIABLES
    \* ---- SecureExam component state (useState) ----
    eMounted,          \* the SecureExam component is mounted
    examQuestions,     \* questions
    examStarted,
    examSession,       \* NoSession or [tab_switches, fullscreen_exits, is_flagged]
    answers,
    currentQuestion,   \* zero-based cursor
    isFullscreen,
    timeLeft,
    isSubmitting,
    \* ---- browser ----
    docFullscreen,     \* document.fullscreenElement is not null
    fsEventPending,    \* a fullscreenchange event of exitFullscreen() is queued
    actionBlocked,     \* the 'Action Blocked' toast of preventAction was shown
    navPending,        \* navigate('/dashboard') was called, route not yet changed
    \* ---- closures held by subscriptions ----
    timerClosure,      \* render captured by the setInterval callback
    visClosure,        \* render captured by the visibilitychange listener
    fsClosure,         \* render captured by the fullscreenchange listener
    timeouts,          \* bag of renders captured by pending setTimeout callbacks
    \* ---- async handlers in flight ----
    vTasks,            \* bag of handleSecurityViolation calls awaiting the update
    sTasks,            \* bag of handleSubmitExam calls awaiting a write
    \* ---- persistence ----
    dbExamSession,     \* the exam_sessions row of this session, or NoRow
    quiz_attempts,     \* bag of quiz_attempts rows inserted
    \* ---- history ----
    violationEvents,   \* handleSecurityViolation events per kind
    autoScheduled,     \* setTimeout(handleSubmitExam) calls made
    closeCount,        \* exam_sessions end-of-session updates applied
    submitBegun,       \* some handleSubmitExam call passed its guard
    leftWithoutSubmit  \* the user navigated away before any submission began

examState == <<eMounted, examQuestions, examStarted, examSession, answers,
               currentQuestion, isFullscreen, timeLeft, isSubmitting>>
browserVars == <<docFullscreen, fsEventPending, navPending>>
closureVars == <<timerClosure, visClosure, fsClosure>>
taskVars == <<timeouts, vTasks, sTasks>>
examDbVars == <<dbExamSession, quiz_attempts>>
historyVars == <<violationEvents, autoScheduled, closeCount, submitBegun,
                 leftWithoutSubmit>>
examVars == <<examState, browserVars, actionBlocked, closureVars, taskVars, examDbVars,
              historyVars>>
\* what only the SecureExam page reads and writes
examPageVars == <<examState, browserVars, actionBlocked, closureVars, taskVars,
                  dbExamSession, historyVars>>

VARIABLES
    \* ---- QuizView component state (useState) ----
    qMounted,              \* the QuizView component is mounted
    lesson,                \* the lesson row, or "null" when its fetch returned none
    allQuestions,
    quizQuestions,         \* questions
    currentQuestionIndex,
    selectedAnswers,
    isSubmitted,
    score,
    quizStarted,
    timerEnabled,
    timeRemaining,         \* Null or <<seconds>>
    timerExpired,
    \* ---- the countdown effect ----
    qInterval,             \* its setInterval is active
    qEffectPending,        \* a render was committed whose effects have not run yet
    \* ---- async handlers in flight ----
    qTasks,                \* bag of handleSubmitQuiz calls awaiting a read or write
    \* ---- persistence ----
    profile,               \* the user's profiles row
    recommendations,       \* bag of recommendations rows inserted
    \* ---- history ----
    sessionNo,             \* sessions started so far (the current one's number)
    attemptsOf,            \* quiz_attempts rows written, per session
    pointsUpdatesOf        \* profile updates applied, per session

quizState == <<qMounted, lesson, allQuestions, quizQuestions, currentQuestionIndex,
               selectedAnswers, isSubmitted, score, quizStarted, timerEnabled,
               timeRemaining, timerExpired>>
quizEffectVars == <<qInterval, qEffectPending>>
quizDbVars == <<profile, recommendations>>
quizHistoryVars == <<sessionNo, attemptsOf, pointsUpdatesOf>>
quizVars == <<quizState, quizEffectVars, qTasks, quizDbVars, quizHistoryVars>>

VARIABLES
    \* ---- a function of the pages applied on its own ----
    args,                  \* the values it is applied to
    result                 \* what it returned, Null before the call

fnVars == <<args, result>>
\* what the SecureExam page leaves alone, and what the QuizView page does
nonExamVars == <<quizVars, fnVars>>
nonQuizVars == <<examPageVars, fnVars>>

vars == <<examVars, quizVars, fnVars>>

(***************************************************************************)
(* Renders and closures.  A closure is recorded by the state of its render *)
(* that the code reachable from it reads:                                  *)
(*   handleSubmitExam          isSubmitting, answers (examSession is set   *)
(*                             in every render that can call it)           *)
(*   handleSecurityViolation   examSession, and handleSubmitExam through   *)
(*                             the timeout it schedules                    *)
(*   handleFullscreenChange    isFullscreen, and handleSecurityViolation   *)
(***************************************************************************)
RenderOf(sub, ans, sess, fs) ==
    [isSubmitting |-> sub, answers |-> ans, examSession |-> sess, isFullscreen |-> fs]

\* the part of a render handleSubmitExam reads
SubmitClosure(r) == [isSubmitting |-> r.isSubmitting, answers |-> r.answers]

\* the part of a render handleSecurityViolation reads
ViolationClosure(r) ==
    [isSubmitting |-> r.isSubmitting, answers |-> r.answers,
     examSession |-> r.examSession]

CurrentRender == RenderOf(isSubmitting, answers, examSession, isFullscreen)

\* the render committed by the step being taken
NextRender == RenderOf(isSubmitting', answers', examSession', isFullscreen')

InitExam ==
    /\ eMounted = TRUE
    /\ examQuestions \in Pools
    /\ examStarted = FALSE
    /\ examSession = NoSession
    /\ answers = EmptyAnswers
    /\ currentQuestion = 0
    /\ isFullscreen = FALSE
    /\ timeLeft = ExamTicks
    /\ isSubmitting = FALSE
    /\ docFullscreen = FALSE
    /\ fsEventPending = FALSE
    /\ navPending = FALSE
    /\ actionBlocked = FALSE
    /\ timerClosure = NoClosure
    /\ visClosure = NoClosure
    /\ fsClosure = NoClosure
    /\ timeouts = EmptyBag
    /\ vTasks = EmptyBag
    /\ sTasks = EmptyBag
    /\ dbExamSession = NoRow
    /\ quiz_attempts = EmptyBag
    /\ violationEvents = [tab_switch |-> 0, fullscreen_exit |-> 0]
    /\ autoScheduled = 0
    /\ closeCount = 0
    /\ submitBegun = FALSE
    /\ leftWithoutSubmit = FALSE

(***************************************************************************)
(* SecureExam: scoring (handleSubmitExam, lines 682-693).                  *)
(***************************************************************************)
\* answers[q.id] === q.correct_answer; an unanswered question reads undefined
CorrectQuestions(qs, ans) ==
    {q \in Range(qs) : q \in DOMAIN ans /\ ans[q] = correct_answer[q]}

ExamScore(qs, ans) ==
    IF Len(qs) > 0 THEN RoundPercent(Cardinality(CorrectQuestions(qs, ans)), Len(qs))
    ELSE 0

\* the quiz_attempts row handleSubmitExam inserts
ExamAttempt(qs, ans) ==
    [score |-> ExamScore(qs, ans),
     correct_answers |-> Cardinality(CorrectQuestions(qs, ans)),
     total_questions |-> Len(qs)]

(***************************************************************************)
(* SecureExam: the effects (lines 513-557).  Each gives the closure its    *)
(* subscription holds after the step: none once unmounted, the new render  *)
(* when a dependency changed, the old closure otherwise.                   *)
(***************************************************************************)
\* useEffect(..., [examStarted, timeLeft]): the countdown interval
TimerEffect ==
    timerClosure' =
        IF ~eMounted' THEN NoClosure
        ELSE IF examStarted' # examStarted \/ timeLeft' # timeLeft
             THEN (IF examStarted' /\ timeLeft' > 0 THEN SubmitClosure(NextRender)
                   ELSE NoClosure)
             ELSE timerClosure

\* useEffect(..., [examStarted, examSession]): the visibilitychange listener;
\* sessionSet: setExamSession was called (always with a new object)
VisibilityEffect(sessionSet) ==
    visClosure' =
        IF ~eMounted' THEN NoClosure
        ELSE IF examStarted' # examStarted \/ sessionSet
             THEN (IF examStarted' /\ examSession' # NoSession
                   THEN ViolationClosure(NextRender)
                   ELSE NoClosure)
             ELSE visClosure

\* useEffect(..., [examStarted, isFullscreen]): the fullscreenchange listener
FullscreenEffect ==
    fsClosure' =
        IF ~eMounted' THEN NoClosure
        ELSE IF examStarted' # examStarted \/ isFullscreen' # isFullscreen
             THEN (IF examStarted' THEN NextRender ELSE NoClosure)
             ELSE fsClosure

CommitEffects(sessionSet) ==
    /\ TimerEffect
    /\ VisibilityEffect(sessionSet)
    /\ FullscreenEffect

(***************************************************************************)
(* SecureExam: handleSubmitExam (lines 678-729), called through closure cl.*)
(***************************************************************************)
\* if (isSubmitting) return;
SubmitGuard(cl) == ~cl.isSubmitting

SubmitTask(cl) ==
    [pc |-> "insert_attempt", attempt |-> ExamAttempt(examQuestions, cl.answers)]

\* the part of handleSubmitExam up to its first await
CallHandleSubmitExam(cl) ==
    /\ sTasks' = IF SubmitGuard(cl) THEN sTasks (+) SetToBag({SubmitTask(cl)})
                 ELSE sTasks
    /\ isSubmitting' = IF SubmitGuard(cl) /\ eMounted THEN TRUE ELSE isSubmitting
    /\ submitBegun' = (submitBegun \/ SubmitGuard(cl))

\* the tail of handleSubmitExam: exitFullscreen(), toast, navigate('/dashboard')
SubmitTail ==
    /\ docFullscreen' = FALSE
    /\ fsEventPending' = (fsEventPending \/ docFullscreen)
    /\ navPending' = (navPending \/ eMounted)

\* the quiz_attempts insert returns
SubmitInsertDone(t) ==
    /\ BagIn(t, sTasks)
    /\ t.pc = "insert_attempt"
    /\ quiz_attempts' = quiz_attempts (+) SetToBag({t.attempt})
    \* if (examSession): set in every render that can call handleSubmitExam
    /\ sTasks' = (sTasks (-) SetToBag({t})) (+) SetToBag({[t EXCEPT !.pc = "end_session"]})
    /\ UNCHANGED <<nonExamVars, actionBlocked>>
    /\ UNCHANGED <<examState, browserVars, closureVars, timeouts, vTasks, dbExamSession,
                   historyVars>>

\* an update that sets ended_at alone
ClosedRowStillActive(row) == [row EXCEPT !.ended_at = "set"]

\* .update({ ended_at: new Date().toISOString(), is_active: false }) (lines 708-714)
ClosedRow(row) == [row EXCEPT !.ended_at = "set", !.is_active = FALSE]

\* the exam_sessions end-of-session update returns
SubmitEndSessionDone(t) ==
    /\ BagIn(t, sTasks)
    /\ t.pc = "end_session"
    /\ sTasks' = sTasks (-) SetToBag({t})
    /\ dbExamSession' = ClosedRow(dbExamSession)
    /\ closeCount' = closeCount + 1
    /\ SubmitTail
    /\ UNCHANGED <<nonExamVars, actionBlocked>>
    /\ UNCHANGED <<examState, closureVars, timeouts, vTasks, quiz_attempts,
                   violationEvents, autoScheduled, submitBegun, leftWithoutSubmit>>

(***************************************************************************)
(* SecureExam: handleSecurityViolation (lines 613-642), through closure cl.*)
(***************************************************************************)
Field(type) == IF type = "tab_switch" THEN "tab_switches" ELSE "fullscreen_exits"

\* newCount >= 3
\* a threshold one lower than the code's
FlagsAtTwo(newCount) == newCount >= ViolationThreshold - 1

Flags(newCount) == newCount >= ViolationThreshold

\* const newCount = (examSession[field] || 0) + 1
NewCount(type, cl) == cl.examSession[Field(type)] + 1

\* the part up to the await of the update
CallHandleSecurityViolation(type, cl) ==
    IF cl.examSession = NoSession
    THEN UNCHANGED <<vTasks, violationEvents>>
    ELSE /\ vTasks' = vTasks (+) SetToBag({[type |-> type,
                                           newCount |-> NewCount(type, cl),
                                           render |-> cl]})
         /\ violationEvents' = [violationEvents EXCEPT ![type] = @ + 1]

\* the update returns: setExamSession, then the timeout or the toast
ViolationUpdateDone(t) ==
    /\ BagIn(t, vTasks)
    /\ vTasks' = vTasks (-) SetToBag({t})
    /\ dbExamSession' =
          [dbExamSession EXCEPT ![Field(t.type)] = t.newCount,
                                !.is_flagged = Flags(t.newCount),
                                !.flag_reason = IF Flags(t.newCount) THEN t.type
                                                ELSE "null"]
    /\ examSession' =
          IF eMounted
          THEN [t.render.examSession EXCEPT ![Field(t.type)] = t.newCount,
                                            !.is_flagged = Flags(t.newCount)]
          ELSE examSession
    /\ IF Flags(t.newCount)
       THEN /\ timeouts' = timeouts (+) SetToBag({SubmitClosure(t.render)})
            /\ autoScheduled' = autoScheduled + 1
       ELSE UNCHANGED <<timeouts, autoScheduled>>
    /\ UNCHANGED <<nonExamVars, actionBlocked>>
    /\ UNCHANGED <<eMounted, examQuestions, examStarted, answers, currentQuestion,
                   isFullscreen, timeLeft, isSubmitting, browserVars, sTasks,
                   quiz_attempts, violationEvents, closeCount, submitBegun,
                   leftWithoutSubmit>>
    /\ CommitEffects(eMounted)

(***************************************************************************)
(* SecureExam: user and environment events.                                *)
(***************************************************************************)
NewSessionRow ==
    [tab_switches |-> 0, fullscreen_exits |-> 0, is_flagged |-> FALSE,
     flag_reason |-> "null", is_active |-> TRUE, ended_at |-> "null"]

\* the render of the exam view reads question.points of
\* questions[currentQuestion] (lines 809, 854): with no question under the
\* cursor it throws, and React unmounts the page
RenderThrows(started, qs, cursor) ==
    started /\ ~(cursor \in 0..(Len(qs) - 1))

\* a start that counts a rejected fullscreen request as a fullscreen exit
StartExamCountingRejection(granted, inserted) ==
    /\ eMounted /\ ~examStarted
    /\ docFullscreen' = (docFullscreen \/ granted)
    /\ isFullscreen' = (isFullscreen \/ granted)
    /\ IF inserted
       THEN /\ dbExamSession' = NewSessionRow
            /\ examSession' = [tab_switches |-> 0, fullscreen_exits |-> 0,
                               is_flagged |-> FALSE]
            /\ examStarted' = TRUE
       ELSE UNCHANGED <<dbExamSession, examSession, examStarted>>
    /\ eMounted' = ~RenderThrows(examStarted', examQuestions, currentQuestion)
    /\ UNCHANGED <<nonExamVars, actionBlocked>>
    /\ UNCHANGED <<examQuestions, answers, currentQuestion, timeLeft,
                   isSubmitting, fsEventPending, navPending, taskVars, quiz_attempts,
                   autoScheduled, closeCount, submitBegun, leftWithoutSubmit>>
    /\ violationEvents' = IF granted THEN violationEvents
                          ELSE [violationEvents EXCEPT !.fullscreen_exit = @ + 1]
    /\ CommitEffects(inserted)

\* startExam (lines 644-672); granted: requestFullscreen() resolved,
\* inserted: the exam_sessions insert returned a row
StartExam(granted, inserted) ==
    /\ eMounted /\ ~examStarted
    /\ docFullscreen' = (docFullscreen \/ granted)
    /\ isFullscreen' = (isFullscreen \/ granted)
    /\ IF inserted
       THEN /\ dbExamSession' = NewSessionRow
            /\ examSession' = [tab_switches |-> 0, fullscreen_exits |-> 0,
                               is_flagged |-> FALSE]
            /\ examStarted' = TRUE
       ELSE UNCHANGED <<dbExamSession, examSession, examStarted>>
    /\ eMounted' = ~RenderThrows(examStarted', examQuestions, currentQuestion)
    /\ UNCHANGED <<nonExamVars, actionBlocked>>
    /\ UNCHANGED <<examQuestions, answers, currentQuestion, timeLeft,
                   isSubmitting, fsEventPending, navPending, taskVars, quiz_attempts,
                   historyVars>>
    /\ CommitEffects(inserted)

ExamViewShown == eMounted /\ examStarted

\* handleAnswerSelect (lines 674-676), from an option button of the shown question
HandleAnswerSelect(answerIndex) ==
    /\ ExamViewShown
    /\ currentQuestion >= 0 /\ currentQuestion < Len(examQuestions)
    /\ answers' = WithAnswer(answers, examQuestions[currentQuestion + 1], answerIndex)
    /\ UNCHANGED <<nonExamVars, actionBlocked>>
    /\ UNCHANGED <<eMounted, examQuestions, examStarted, examSession, currentQuestion,
                   isFullscreen, timeLeft, isSubmitting, browserVars, closureVars,
                   taskVars, examDbVars, historyVars>>

Max(a, b) == IF a >= b THEN a ELSE b
Min(a, b) == IF a <= b THEN a ELSE b

\* footer navigation (lines 893-929)
ExamPrevious ==
    /\ ExamViewShown
    /\ currentQuestion # 0
    /\ currentQuestion' = Max(0, currentQuestion - 1)
    /\ UNCHANGED <<nonExamVars, actionBlocked>>
    /\ UNCHANGED <<eMounted, examQuestions, examStarted, examSession, answers,
                   isFullscreen, timeLeft, isSubmitting, browserVars, closureVars,
                   taskVars, examDbVars, historyVars>>

ExamNextQuestion ==
    /\ ExamViewShown
    /\ currentQuestion # Len(examQuestions) - 1
    /\ currentQuestion' = Min(Len(examQuestions) - 1, currentQuestion + 1)
    /\ UNCHANGED <<nonExamVars, actionBlocked>>
    /\ UNCHANGED <<eMounted, examQuestions, examStarted, examSession, answers,
                   isFullscreen, timeLeft, isSubmitting, browserVars, closureVars,
                   taskVars, examDbVars, historyVars>>

ExamJump(idx) ==
    /\ ExamViewShown
    /\ idx \in 0..(Len(examQuestions) - 1)
    /\ currentQuestion' = idx
    /\ UNCHANGED <<nonExamVars, actionBlocked>>
    /\ UNCHANGED <<eMounted, examQuestions, examStarted, examSession, answers,
                   isFullscreen, timeLeft, isSubmitting, browserVars, closureVars,
                   taskVars, examDbVars, historyVars>>

\* the Submit Exam button (line 920), a handler of the latest render
ClickSubmitExam ==
    /\ ExamViewShown
    /\ currentQuestion = Len(examQuestions) - 1
    /\ ~isSubmitting
    /\ CallHandleSubmitExam(SubmitClosure(CurrentRender))
    /\ UNCHANGED <<nonExamVars, actionBlocked>>
    /\ UNCHANGED <<eMounted, examQuestions, examStarted, examSession, answers,
                   currentQuestion, isFullscreen, timeLeft, browserVars, timeouts,
                   vTasks, examDbVars, violationEvents, autoScheduled, closeCount,
                   leftWithoutSubmit>>
    /\ CommitEffects(FALSE)

\* one firing of the countdown interval (lines 517-525)
ExamTick ==
    /\ timerClosure # NoClosure
    /\ IF timeLeft <= 1
       THEN /\ CallHandleSubmitExam(timerClosure)
            /\ timeLeft' = 0
       ELSE /\ timeLeft' = timeLeft - 1
            /\ UNCHANGED <<sTasks, isSubmitting, submitBegun>>
    /\ UNCHANGED <<nonExamVars, actionBlocked>>
    /\ UNCHANGED <<eMounted, examQuestions, examStarted, examSession, answers,
                   currentQuestion, isFullscreen, browserVars, timeouts, vTasks,
                   examDbVars, violationEvents, autoScheduled, closeCount,
                   leftWithoutSubmit>>
    /\ CommitEffects(FALSE)

\* a setTimeout(() => handleSubmitExam(), 3000) of line 634 fires
GraceTimeoutFires(cl) ==
    /\ BagIn(cl, timeouts)
    /\ timeouts' = timeouts (-) SetToBag({cl})
    /\ CallHandleSubmitExam(cl)
    /\ UNCHANGED <<nonExamVars, actionBlocked>>
    /\ UNCHANGED <<eMounted, examQuestions, examStarted, examSession, answers,
                   currentQuestion, isFullscreen, timeLeft, browserVars, vTasks,
                   examDbVars, violationEvents, autoScheduled, closeCount,
                   leftWithoutSubmit>>
    /\ CommitEffects(FALSE)

\* visibilitychange with document.hidden (lines 534-538)
TabSwitch ==
    /\ visClosure # NoClosure
    /\ violationEvents.tab_switch < MaxTabSwitches
    /\ BagCardinality(vTasks) < MaxInFlight
    /\ CallHandleSecurityViolation("tab_switch", visClosure)
    /\ UNCHANGED <<nonExamVars, actionBlocked>>
    /\ UNCHANGED <<examState, browserVars, closureVars, timeouts, sTasks, examDbVars,
                   autoScheduled, closeCount, submitBegun, leftWithoutSubmit>>

\* handleFullscreenChange (lines 548-553), run by the attached listener once
\* document.fullscreenElement is null
HandleFullscreenChange ==
    /\ IF fsClosure.isFullscreen
       THEN CallHandleSecurityViolation("fullscreen_exit", ViolationClosure(fsClosure))
       ELSE UNCHANGED <<vTasks, violationEvents>>
    /\ isFullscreen' = FALSE

\* the user leaves full screen (Esc); the listener, if attached, runs
UserExitsFullscreen ==
    /\ eMounted /\ docFullscreen
    /\ docFullscreen' = FALSE
    /\ IF fsClosure # NoClosure
       THEN HandleFullscreenChange
       ELSE UNCHANGED <<vTasks, violationEvents, isFullscreen>>
    /\ UNCHANGED <<nonExamVars, actionBlocked>>
    /\ UNCHANGED <<eMounted, examQuestions, examStarted, examSession, answers,
                   currentQuestion, timeLeft, isSubmitting, fsEventPending, navPending,
                   timeouts, sTasks, examDbVars, autoScheduled, closeCount,
                   submitBegun, leftWithoutSubmit>>
    /\ CommitEffects(FALSE)

\* the fullscreenchange event of handleSubmitExam's exitFullscreen() is dispatched
FullscreenChangeDispatched ==
    /\ fsEventPending
    /\ fsEventPending' = FALSE
    /\ IF fsClosure # NoClosure
       THEN HandleFullscreenChange
       ELSE UNCHANGED <<vTasks, violationEvents, isFullscreen>>
    /\ UNCHANGED <<nonExamVars, actionBlocked>>
    /\ UNCHANGED <<eMounted, examQuestions, examStarted, examSession, answers,
                   currentQuestion, timeLeft, isSubmitting, docFullscreen, navPending,
                   timeouts, sTasks, examDbVars, autoScheduled, closeCount,
                   submitBegun, leftWithoutSubmit>>
    /\ CommitEffects(FALSE)

\* the route change of navigate('/dashboard') commits: SecureExam unmounts and
\* every effect's cleanup runs
RouteChange ==
    /\ eMounted /\ navPending
    /\ eMounted' = FALSE
    /\ navPending' = FALSE
    /\ UNCHANGED <<nonExamVars, actionBlocked>>
    /\ UNCHANGED <<examQuestions, examStarted, examSession, answers, currentQuestion,
                   isFullscreen, timeLeft, isSubmitting, docFullscreen, fsEventPending,
                   taskVars, examDbVars, historyVars>>
    /\ CommitEffects(FALSE)

\* the user leaves the page before any submission (Cancel on the start screen,
\* browser navigation during the exam)
NavigateAway ==
    /\ eMounted /\ ~submitBegun
    /\ eMounted' = FALSE
    /\ leftWithoutSubmit' = (examStarted /\ ~submitBegun)
    /\ UNCHANGED <<nonExamVars, actionBlocked>>
    /\ UNCHANGED <<examQuestions, examStarted, examSession, answers, currentQuestion,
                   isFullscreen, timeLeft, isSubmitting, browserVars, taskVars,
                   examDbVars, violationEvents, autoScheduled, closeCount, submitBegun>>
    /\ CommitEffects(FALSE)

\* a copy, paste or contextmenu event that counts as a tab switch
PreventActionAsViolation ==
    /\ eMounted /\ examStarted /\ visClosure # NoClosure
    /\ actionBlocked' = TRUE
    /\ CallHandleSecurityViolation("tab_switch", visClosure)
    /\ UNCHANGED nonExamVars
    /\ UNCHANGED <<examState, browserVars, closureVars, timeouts, sTasks, examDbVars,
                   autoScheduled, closeCount, submitBegun, leftWithoutSubmit>>

\* preventAction (lines 563-570), the listener of copy, paste and contextmenu
\* the effect of lines 560-581 attaches while examStarted: e.preventDefault()
\* and the toast
PreventAction ==
    /\ eMounted /\ examStarted
    /\ actionBlocked' = TRUE
    /\ UNCHANGED nonExamVars
    /\ UNCHANGED <<examState, browserVars, closureVars, taskVars, examDbVars,
                   historyVars>>

\* steps of the page that neither the student's answers nor the security
\* monitor's events start
ExamCommon ==
    \/ \E granted \in BOOLEAN, inserted \in BOOLEAN : StartExam(granted, inserted)
    \/ ExamPrevious
    \/ ExamNextQuestion
    \/ \E idx \in 0..1 : ExamJump(idx)
    \/ ClickSubmitExam
    \/ ExamTick
    \/ FullscreenChangeDispatched
    \/ \E t \in BagToSet(sTasks) : SubmitInsertDone(t)
    \/ \E t \in BagToSet(sTasks) : SubmitEndSessionDone(t)
    \/ RouteChange
    \/ NavigateAway

\* the security monitor: the student leaves the tab or full screen, and never
\* selects an answer
ExamMonitorNext ==
    \/ ExamCommon
    \/ TabSwitch
    \/ UserExitsFullscreen
    \/ \E t \in BagToSet(vTasks) : ViolationUpdateDone(t)
    \/ \E cl \in BagToSet(timeouts) : GraceTimeoutFires(cl)

\* the clipboard and the context menu: the student copies, pastes or
\* right-clicks, and switches tabs, and does not leave full screen
ExamClipboardNext ==
    \/ ExamCommon
    \/ TabSwitch
    \/ \E t \in BagToSet(vTasks) : ViolationUpdateDone(t)
    \/ \E cl \in BagToSet(timeouts) : GraceTimeoutFires(cl)
    \/ PreventAction

\* the answer sheet: the student answers, and stays in the tab and in full screen
ExamSheetNext ==
    \/ ExamCommon
    \/ \E answerIndex \in OptionIdx : HandleAnswerSelect(answerIndex)


(***************************************************************************)
(* QuizView (src/unnamed/part_007).  The session is built from the pool    *)
(* for any count the select offers ('all' alone for pools under five       *)
(* questions), with one timer length, QuizTicks.                           *)
(*                                                                         *)
(* The countdown effect (lines 87-105) is a passive effect.  After a       *)
(* render caused by a click it runs before the handler's event ends; after *)
(* a render caused by the interval's own state update it runs in a later   *)
(* task, qEffectPending meanwhile.  A click dispatched in between runs its *)
(* handler first, then the pending effect with the closure of the render   *)
(* that scheduled it, then the new render.  The interval does not fire     *)
(* again before the pending effect ran.                                    *)
(***************************************************************************)
QuizRenderOf(started, enabled, remaining, submitted, qs, ans) ==
    [quizStarted |-> started, timerEnabled |-> enabled, timeRemaining |-> remaining,
     isSubmitted |-> submitted, questions |-> qs, selectedAnswers |-> ans]

CurrentQuizRender ==
    QuizRenderOf(quizStarted, timerEnabled, timeRemaining, isSubmitted, quizQuestions,
                 selectedAnswers)

\* if (!quizStarted || !timerEnabled || timeRemaining === null || isSubmitted) return;
EffectGuard(r) ==
    r.quizStarted /\ r.timerEnabled /\ r.timeRemaining # Null /\ ~r.isSubmitted

\* the effect of render r calls handleSubmitQuiz: timeRemaining <= 0
EffectSubmits(r) == EffectGuard(r) /\ r.timeRemaining[1] <= 0

\* the effect of render r starts the interval
EffectStartsInterval(r) == EffectGuard(r) /\ r.timeRemaining[1] > 0

\* the points of the correctly answered questions
TotalPoints(qs, ans) == SumOver(points, CorrectQuestions(qs, ans))

\* if (!user || !quiz || questions.length === 0) return;
QuizSubmitGuard(r) == Len(r.questions) # 0

\* Math.round((correctCount / questions.length) * 100)
QuizScore(r) ==
    RoundPercent(Cardinality(CorrectQuestions(r.questions, r.selectedAnswers)),
                 Len(r.questions))

\* a call of handleSubmitQuiz (lines 215-294) of render r, at its first await
QuizSubmitTask(r) ==
    [pc |-> "insert_attempt",
     session |-> sessionNo,
     attempt |-> [score |-> QuizScore(r),
                  correct_answers |->
                      Cardinality(CorrectQuestions(r.questions, r.selectedAnswers)),
                  total_questions |-> Len(r.questions)],
     totalPoints |-> TotalPoints(r.questions, r.selectedAnswers),
     profile |-> Null]

\* calls handleSubmitQuiz of render r makes that pass its guard, among n calls
Passing(n, r) == IF QuizSubmitGuard(r) THEN n ELSE 0

\* n calls of handleSubmitQuiz of render r, each up to its first await
CallHandleSubmitQuiz(n, r) ==
    /\ qTasks' = IF Passing(n, r) > 0
                 THEN qTasks (+) [x \in {QuizSubmitTask(r)} |-> Passing(n, r)]
                 ELSE qTasks
    /\ score' = IF Passing(n, r) > 0 THEN QuizScore(r) ELSE score
    /\ isSubmitted' = (isSubmitted \/ Passing(n, r) > 0)

\* what the pending effect, if any, does when a click flushes it
PendingEffectSubmits == qEffectPending /\ EffectSubmits(CurrentQuizRender)

\* the effects after the render a step commits: the interval is the one the
\* latest effect run left
CommitQuizEffects ==
    /\ qEffectPending' = FALSE
    /\ qInterval' =
          (/\ qMounted'
           /\ EffectStartsInterval(
                  QuizRenderOf(quizStarted', timerEnabled', timeRemaining', isSubmitted',
                               quizQuestions', selectedAnswers')))

SetupViewShown == qMounted /\ Len(allQuestions) # 0 /\ ~quizStarted
QuizViewShown == qMounted /\ Len(allQuestions) # 0 /\ quizStarted /\ ~isSubmitted
ResultsViewShown == qMounted /\ Len(allQuestions) # 0 /\ quizStarted /\ isSubmitted

\* the Enable Timer button of the setup view (line 443)
ToggleTimer ==
    /\ SetupViewShown
    /\ timerEnabled' = ~timerEnabled
    /\ UNCHANGED <<qMounted, lesson, allQuestions, quizQuestions, currentQuestionIndex,
                   selectedAnswers, isSubmitted, score, quizStarted, timeRemaining,
                   timerExpired, qTasks, quizDbVars, quizHistoryVars, quiz_attempts>>
    /\ CommitQuizEffects
    /\ UNCHANGED nonQuizVars

\* parseInt(selectedQuestionCount, 10) of the values the select offers
ParseInt(str) ==
    CASE str = "5" -> 5 [] str = "10" -> 10 [] str = "15" -> 15 [] str = "20" -> 20

\* a count offered only to pools above it
OfferedAbove(total, c) == total > ParseInt(c)

\* if (total >= 5) ..., if (total >= 10) ... (lines 349-352)
Offered(total, c) == total >= ParseInt(c)

\* options.unshift(x)
Unshift(options, x) == <<x>> \o options

\* options.reverse()
Reverse(options) == [i \in 1..Len(options) |-> options[Len(options) + 1 - i]]

\* getQuestionCountOptions (lines 343-355): the list of values it returns
getQuestionCountOptions(total) ==
    LET o0 == <<"all">>
        o1 == IF Offered(total, "5") THEN Unshift(o0, "5") ELSE o0
        o2 == IF Offered(total, "10") THEN Unshift(o1, "10") ELSE o1
        o3 == IF Offered(total, "15") THEN Unshift(o2, "15") ELSE o2
        o4 == IF Offered(total, "20") THEN Unshift(o3, "20") ELSE o3
    IN  Reverse(o4)

\* the values of the select (lines 405-411)
QuestionCountOptions(total) ==
    {getQuestionCountOptions(total)[i] : i \in 1..Len(getQuestionCountOptions(total))}

\* the orders [...allQuestions].sort(() => Math.random() - 0.5) may return: the
\* comparator is not consistent, so the order is implementation-defined
RECURSIVE Orderings(_)
Orderings(S) ==
    IF S = {} THEN {<< >>}
    ELSE UNION {{<<x>> \o rest : rest \in Orderings(S \ {x})} : x \in S}

Shuffles(all) ==
    {[i \in 1..Len(all) |-> all[order[i]]] : order \in Orderings(1..Len(all))}

\* a session that keeps the whole shuffled pool, the slice forgotten
SelectedQuestionsUnsliced(all, selectedQuestionCount, shuffled) ==
    IF selectedQuestionCount # "all" THEN shuffled ELSE all

\* a session that is shuffled whatever the count
SelectedQuestionsShuffled(all, selectedQuestionCount, shuffled) ==
    IF selectedQuestionCount # "all"
    THEN SubSeq(shuffled, 1, Min(ParseInt(selectedQuestionCount), Len(all)))
    ELSE shuffled

\* selectedQuestions of startQuiz (lines 172-180)
SelectedQuestions(all, selectedQuestionCount, shuffled) ==
    IF selectedQuestionCount # "all"
    THEN SubSeq(shuffled, 1, Min(ParseInt(selectedQuestionCount), Len(all)))
    ELSE all

\* a start that sets the deadline whether or not the timer is enabled
StartQuizAlwaysTimed ==
    /\ SetupViewShown
    /\ sessionNo < MaxSessions
    /\ sessionNo' = sessionNo + 1
    /\ \E selectedQuestionCount \in QuestionCountOptions(Len(allQuestions)),
          shuffled \in Shuffles(allQuestions) :
             quizQuestions' = SelectedQuestions(allQuestions, selectedQuestionCount,
                                                shuffled)
    /\ timeRemaining' = <<QuizTicks>>
    /\ quizStarted' = TRUE
    /\ UNCHANGED <<qMounted, lesson, allQuestions, currentQuestionIndex,
                   selectedAnswers, isSubmitted, score, timerEnabled, timerExpired,
                   qTasks, quizDbVars, attemptsOf, pointsUpdatesOf, quiz_attempts>>
    /\ CommitQuizEffects
    /\ UNCHANGED nonQuizVars

\* startQuiz (lines 171-191)
StartQuiz ==
    /\ SetupViewShown
    /\ sessionNo < MaxSessions
    /\ sessionNo' = sessionNo + 1
    /\ \E selectedQuestionCount \in QuestionCountOptions(Len(allQuestions)),
          shuffled \in Shuffles(allQuestions) :
             quizQuestions' = SelectedQuestions(allQuestions, selectedQuestionCount,
                                                shuffled)
    /\ timeRemaining' = IF timerEnabled THEN <<QuizTicks>> ELSE timeRemaining
    /\ quizStarted' = TRUE
    /\ UNCHANGED <<qMounted, lesson, allQuestions, currentQuestionIndex,
                   selectedAnswers, isSubmitted, score, timerEnabled, timerExpired,
                   qTasks, quizDbVars, attemptsOf, pointsUpdatesOf, quiz_attempts>>
    /\ CommitQuizEffects
    /\ UNCHANGED nonQuizVars

\* a click in the quiz view: its handler's own updates are the caller's; here the
\* n calls of handleSubmitQuiz the click makes, and the pending effect it flushes
QuizClick(n) ==
    /\ CallHandleSubmitQuiz(n + (IF PendingEffectSubmits THEN 1 ELSE 0),
                            CurrentQuizRender)
    /\ timerExpired' = (timerExpired \/ PendingEffectSubmits)
    /\ UNCHANGED <<qMounted, lesson, allQuestions, quizQuestions, quizStarted,
                   timerEnabled, timeRemaining, quizDbVars, quizHistoryVars,
                   quiz_attempts>>
    /\ CommitQuizEffects
    /\ UNCHANGED nonQuizVars

\* handleSelectAnswer (lines 207-213), from an option button of the shown question
HandleSelectAnswer(answerIndex) ==
    /\ QuizViewShown
    /\ currentQuestionIndex >= 0 /\ currentQuestionIndex < Len(quizQuestions)
    /\ selectedAnswers' =
          IF isSubmitted THEN selectedAnswers
          ELSE WithAnswer(selectedAnswers, quizQuestions[currentQuestionIndex + 1],
                          answerIndex)
    /\ UNCHANGED currentQuestionIndex
    /\ QuizClick(0)

\* the navigation controls (lines 680-733)
QuizPrevious ==
    /\ QuizViewShown
    /\ currentQuestionIndex # 0
    /\ currentQuestionIndex' = currentQuestionIndex - 1
    /\ UNCHANGED selectedAnswers
    /\ QuizClick(0)

QuizNextQuestion ==
    /\ QuizViewShown
    /\ currentQuestionIndex # Len(quizQuestions) - 1
    /\ currentQuestionIndex' = currentQuestionIndex + 1
    /\ UNCHANGED selectedAnswers
    /\ QuizClick(0)

QuizJump(idx) ==
    /\ QuizViewShown
    /\ idx \in 0..(Len(quizQuestions) - 1)
    /\ currentQuestionIndex' = idx
    /\ UNCHANGED selectedAnswers
    /\ QuizClick(0)

\* a Submit Quiz button that is enabled before every question is answered
ClickSubmitQuizAlwaysEnabled ==
    /\ QuizViewShown
    /\ currentQuestionIndex = Len(quizQuestions) - 1
    /\ UNCHANGED <<currentQuestionIndex, selectedAnswers>>
    /\ QuizClick(1)

\* the Submit Quiz button (lines 690-697)
ClickSubmitQuiz ==
    /\ QuizViewShown
    /\ currentQuestionIndex = Len(quizQuestions) - 1
    /\ ~(Cardinality(DOMAIN selectedAnswers) < Len(quizQuestions))
    /\ UNCHANGED <<currentQuestionIndex, selectedAnswers>>
    /\ QuizClick(1)

\* one firing of the interval (lines 97-102)
QuizTick ==
    /\ qInterval /\ ~qEffectPending
    /\ timeRemaining' = IF timeRemaining = Null \/ timeRemaining[1] <= 0 THEN <<0>>
                        ELSE <<timeRemaining[1] - 1>>
    /\ qEffectPending' = (timeRemaining' # timeRemaining)
    /\ UNCHANGED <<qMounted, lesson, allQuestions, quizQuestions, currentQuestionIndex,
                   selectedAnswers, isSubmitted, score, quizStarted, timerEnabled,
                   timerExpired, qInterval, qTasks, quizDbVars, quizHistoryVars,
                   quiz_attempts>>
    /\ UNCHANGED nonQuizVars

\* the pending countdown effect runs in its own task (lines 88-105)
QuizEffectRuns ==
    /\ qEffectPending
    /\ CallHandleSubmitQuiz(IF EffectSubmits(CurrentQuizRender) THEN 1 ELSE 0,
                            CurrentQuizRender)
    /\ timerExpired' = (timerExpired \/ EffectSubmits(CurrentQuizRender))
    /\ UNCHANGED <<qMounted, lesson, allQuestions, quizQuestions, currentQuestionIndex,
                   selectedAnswers, quizStarted, timerEnabled, timeRemaining,
                   quizDbVars, quizHistoryVars, quiz_attempts>>
    /\ CommitQuizEffects
    /\ UNCHANGED nonQuizVars

\* a retry that forgets setTimeRemaining(null)
HandleRetryKeepsDeadline ==
    /\ ResultsViewShown
    /\ selectedAnswers' = EmptyAnswers
    /\ isSubmitted' = FALSE
    /\ score' = 0
    /\ currentQuestionIndex' = 0
    /\ quizStarted' = FALSE
    /\ quizQuestions' = << >>
    /\ timerExpired' = FALSE
    /\ UNCHANGED <<qMounted, lesson, allQuestions, timerEnabled, timeRemaining, qTasks, quizDbVars,
                   quizHistoryVars, quiz_attempts>>
    /\ CommitQuizEffects
    /\ UNCHANGED nonQuizVars

\* handleRetry (lines 296-306), from the Retry button of the results view
HandleRetry ==
    /\ ResultsViewShown
    /\ selectedAnswers' = EmptyAnswers
    /\ isSubmitted' = FALSE
    /\ score' = 0
    /\ currentQuestionIndex' = 0
    /\ quizStarted' = FALSE
    /\ quizQuestions' = << >>
    /\ timeRemaining' = Null
    /\ timerExpired' = FALSE
    /\ UNCHANGED <<qMounted, lesson, allQuestions, timerEnabled, qTasks, quizDbVars,
                   quizHistoryVars, quiz_attempts>>
    /\ CommitQuizEffects
    /\ UNCHANGED nonQuizVars

\* the back buttons (lines 335, 365, 493, 604): a pending effect runs, then
\* QuizView unmounts and the effect's cleanup clears the interval
QuizNavigateAway ==
    /\ qMounted
    /\ qMounted' = FALSE
    /\ CallHandleSubmitQuiz(IF PendingEffectSubmits THEN 1 ELSE 0, CurrentQuizRender)
    /\ timerExpired' = (timerExpired \/ PendingEffectSubmits)
    /\ UNCHANGED <<lesson, allQuestions, quizQuestions, currentQuestionIndex,
                   selectedAnswers, quizStarted, timerEnabled, timeRemaining,
                   quizDbVars, quizHistoryVars, quiz_attempts>>
    /\ CommitQuizEffects
    /\ UNCHANGED nonQuizVars

(***************************************************************************)
(* QuizView: the continuations of handleSubmitQuiz (lines 236-293).        *)
(***************************************************************************)
\* a threshold every score reaches
PassedAtZero(t) == t.attempt.score >= 0

Passed(t) == t.attempt.score >= PassingScore

\* both thresholds tested in sequence, the second on the level the first gave
NewLevelCascading(newPoints, level) ==
    LET first == IF level = "beginner" /\ newPoints >= IntermediateAt
                 THEN "intermediate" ELSE level
    IN  IF first = "intermediate" /\ newPoints >= AdvancedAt THEN "advanced" ELSE first

\* lines 260-264
NewLevel(newPoints, level) ==
    IF newPoints >= IntermediateAt /\ level = "beginner" THEN "intermediate"
    ELSE IF newPoints >= AdvancedAt /\ level = "intermediate" THEN "advanced"
    ELSE level

\* the thresholds tested against the points gained, not the new total
UpdatedProfileOnDelta(p, totalPoints) ==
    [total_points |-> p.total_points + totalPoints,
     current_level |-> NewLevel(totalPoints, p.current_level)]

\* the row the profiles update writes (lines 256-272), p the row that was read
UpdatedProfile(p, totalPoints) ==
    [total_points |-> p.total_points + totalPoints,
     current_level |-> NewLevel(p.total_points + totalPoints, p.current_level)]

Moved(t, u) == (qTasks (-) SetToBag({t})) (+) SetToBag({u})

\* the quiz_attempts insert returns (lines 236-248, 284)
QuizInsertDone(t) ==
    /\ BagIn(t, qTasks)
    /\ t.pc = "insert_attempt"
    /\ quiz_attempts' = quiz_attempts (+) SetToBag({t.attempt})
    /\ attemptsOf' = [attemptsOf EXCEPT ![t.session] = @ + 1]
    /\ qTasks' = IF Passed(t) THEN Moved(t, [t EXCEPT !.pc = "select_profile"])
                 ELSE IF lesson # "null"
                      THEN Moved(t, [t EXCEPT !.pc = "insert_recommendation"])
                      ELSE qTasks (-) SetToBag({t})
    /\ UNCHANGED <<quizState, quizEffectVars, quizDbVars, sessionNo, pointsUpdatesOf>>
    /\ UNCHANGED nonQuizVars

\* the profiles select returns (lines 249-256)
QuizProfileRead(t) ==
    /\ BagIn(t, qTasks)
    /\ t.pc = "select_profile"
    /\ qTasks' = Moved(t, [t EXCEPT !.pc = "update_profile", !.profile = <<profile>>])
    /\ UNCHANGED <<quizState, quizEffectVars, quizDbVars, quizHistoryVars, quiz_attempts>>
    /\ UNCHANGED nonQuizVars

\* the profiles update returns (lines 256-280)
QuizProfileUpdated(t) ==
    /\ BagIn(t, qTasks)
    /\ t.pc = "update_profile"
    /\ profile' = UpdatedProfile(t.profile[1], t.totalPoints)
    /\ pointsUpdatesOf' = [pointsUpdatesOf EXCEPT ![t.session] = @ + 1]
    /\ qTasks' = qTasks (-) SetToBag({t})
    /\ UNCHANGED <<quizState, quizEffectVars, recommendations, sessionNo, attemptsOf,
                   quiz_attempts>>
    /\ UNCHANGED nonQuizVars

\* the recommendations insert returns (lines 284-293)
QuizRecommendationDone(t) ==
    /\ BagIn(t, qTasks)
    /\ t.pc = "insert_recommendation"
    /\ recommendations' =
          recommendations (+) SetToBag({[lesson_id |-> lesson,
                                         reason |-> t.attempt.score,
                                         priority |-> RecommendationPriority]})
    /\ qTasks' = qTasks (-) SetToBag({t})
    /\ UNCHANGED <<quizState, quizEffectVars, profile, quizHistoryVars, quiz_attempts>>
    /\ UNCHANGED nonQuizVars

QuizNext ==
    \/ ToggleTimer
    \/ StartQuiz
    \/ \E answerIndex \in OptionIdx : HandleSelectAnswer(answerIndex)
    \/ QuizPrevious
    \/ QuizNextQuestion
    \/ \E idx \in 0..1 : QuizJump(idx)
    \/ ClickSubmitQuiz
    \/ QuizTick
    \/ QuizEffectRuns
    \/ HandleRetry
    \/ QuizNavigateAway
    \/ \E t \in BagToSet(qTasks) : QuizInsertDone(t)
    \/ \E t \in BagToSet(qTasks) : QuizProfileRead(t)
    \/ \E t \in BagToSet(qTasks) : QuizProfileUpdated(t)
    \/ \E t \in BagToSet(qTasks) : QuizRecommendationDone(t)

(***************************************************************************)
(* The scoring of handleSubmitQuiz (lines 218-229) and of handleSubmitExam *)
(* (AdminAnalytics.tsx, lines 682-693), applied on its own to a sheet: the *)
(* questions 1..total, the first `right` of them answered correctly, the   *)
(* next `wrong` answered with another option, the others left unanswered.  *)
(***************************************************************************)
SheetAnswers(right, wrong) ==
    [q \in 1..(right + wrong) |->
        IF q <= right THEN correct_answer[q] ELSE 1 - correct_answer[q]]

SheetsOf(total) ==
    UNION {{[fn |-> "score", questions |-> [i \in 1..total |-> i],
             answers |-> SheetAnswers(right, wrong)] : wrong \in 0..(total - right)} :
           right \in 0..total}

ScoreArgs == UNION {SheetsOf(total) : total \in 0..MaxQuestions}

\* handleSubmitQuiz, lines 216-229
ScoreQuiz ==
    /\ args # Null /\ args.fn = "score"
    /\ result = Null
    /\ Len(args.questions) # 0
    /\ result' =
          <<[correctCount |-> Cardinality(CorrectQuestions(args.questions, args.answers)),
             totalPoints |-> TotalPoints(args.questions, args.answers),
             score |-> QuizScore([questions |-> args.questions,
                                  selectedAnswers |-> args.answers])]>>
    /\ UNCHANGED <<examVars, quizVars, args>>

\* handleSubmitExam, lines 682-693
ScoreExam ==
    /\ args # Null /\ args.fn = "score"
    /\ result = Null
    /\ result' =
          <<[correctCount |-> Cardinality(CorrectQuestions(args.questions, args.answers)),
             totalPoints |-> TotalPoints(args.questions, args.answers),
             score |-> ExamScore(args.questions, args.answers)]>>
    /\ UNCHANGED <<examVars, quizVars, args>>

ScoreNext ==
    \/ ScoreQuiz
    \/ ScoreExam

(***************************************************************************)
(* The progression of handleSubmitQuiz (lines 255-272) applied on its own  *)
(* to a profile row and the points of a passing submission.                *)
(***************************************************************************)
Levels == {"beginner", "intermediate", "advanced"}

\* totals at and around a threshold
Around(threshold) == {threshold + 5 * k : k \in -4..1}

LevelArgs ==
    {[fn |-> "level", profile |-> [total_points |-> tp, current_level |-> l],
      totalPoints |-> gained] :
        tp \in {0} \cup Around(IntermediateAt) \cup Around(AdvancedAt),
        l \in Levels,
        gained \in {5 * k : k \in 0..4}}

\* lines 255-272
ApplyProgression ==
    /\ args # Null /\ args.fn = "level"
    /\ result = Null
    /\ result' = <<UpdatedProfile(args.profile, args.totalPoints)>>
    /\ UNCHANGED <<examVars, quizVars, args>>

(***************************************************************************)
(* The session startQuiz builds (lines 172-180), applied on its own to a   *)
(* pool and a value of the question-count select.                          *)
(***************************************************************************)
BuildArgs ==
    {[fn |-> "build", allQuestions |-> [i \in 1..total |-> i],
      selectedQuestionCount |-> c] :
        total \in 0..MaxPool, c \in {"all", "5", "10", "15", "20"}}

\* lines 172-180
BuildSession ==
    /\ args # Null /\ args.fn = "build"
    /\ result = Null
    /\ \E shuffled \in Shuffles(args.allQuestions) :
          result' = <<SelectedQuestions(args.allQuestions, args.selectedQuestionCount,
                                        shuffled)>>
    /\ UNCHANGED <<examVars, quizVars, args>>

(***************************************************************************)
(* getQuestionCountOptions (lines 343-355) applied on its own to a pool    *)
(* size.                                                                   *)
(***************************************************************************)
OptionsArgs == {[fn |-> "options", total |-> total] : total \in 0..MaxTotal}

\* lines 343-355
ListOptions ==
    /\ args # Null /\ args.fn = "options"
    /\ result = Null
    /\ result' = <<getQuestionCountOptions(args.total)>>
    /\ UNCHANGED <<examVars, quizVars, args>>

(***************************************************************************)
(* Initial states and specifications.                                      *)
(***************************************************************************)
\* the profiles a user may have when the page loads
InitialProfiles == {[total_points |-> 0, current_level |-> "beginner"]}

\* the page after fetchQuizData, for the pools and profile rows given
InitQuizAt(pools, profiles) ==
    /\ qMounted = TRUE
    /\ lesson \in {"lesson", "null"}
    /\ allQuestions \in pools
    /\ quizQuestions = << >>
    /\ currentQuestionIndex = 0
    /\ selectedAnswers = EmptyAnswers
    /\ isSubmitted = FALSE
    /\ score = 0
    /\ quizStarted = FALSE
    /\ timerEnabled = FALSE
    /\ timeRemaining = Null
    /\ timerExpired = FALSE
    /\ qInterval = FALSE
    /\ qEffectPending = FALSE
    /\ qTasks = EmptyBag
    /\ profile \in profiles
    /\ recommendations = EmptyBag
    /\ sessionNo = 0
    /\ attemptsOf = [i \in 1..MaxSessions |-> 0]
    /\ pointsUpdatesOf = [i \in 1..MaxSessions |-> 0]

InitQuiz == InitQuizAt(Pools, InitialProfiles)

\* a quiz of four questions, where 3 of 4 and 4 of 4 both pass with different
\* points, taken by a beginner 30 points below the first threshold
RetryPools == {<<1, 2, 3, 4>>}
RetryProfiles == {[total_points |-> IntermediateAt - 30, current_level |-> "beginner"]}

\* the other page stays as it loaded, with nothing to show
ExamIdle ==
    /\ InitExam
    /\ examQuestions = << >>
QuizIdle ==
    /\ InitQuiz
    /\ allQuestions = << >>
    /\ lesson = "null"

\* no function is applied on its own
FnIdle ==
    /\ args = Null
    /\ result = Null

ExamInit == InitExam /\ QuizIdle /\ FnIdle
QuizInit == InitQuiz /\ ExamIdle /\ FnIdle

ScoreInit ==
    /\ ExamIdle /\ QuizIdle
    /\ args \in ScoreArgs
    /\ result = Null

LevelInit ==
    /\ ExamIdle /\ QuizIdle
    /\ args \in LevelArgs
    /\ result = Null

QuizRetryInit == InitQuizAt(RetryPools, RetryProfiles) /\ ExamIdle /\ FnIdle

BuildInit ==
    /\ ExamIdle /\ QuizIdle
    /\ args \in BuildArgs
    /\ result = Null

OptionsInit ==
    /\ ExamIdle /\ QuizIdle
    /\ args \in OptionsArgs
    /\ result = Null

ExamMonitorSpec == ExamInit /\ [][ExamMonitorNext]_vars

ExamSheetSpec == ExamInit /\ [][ExamSheetNext]_vars

ExamClipboardSpec == ExamInit /\ [][ExamClipboardNext]_vars

QuizSpec == QuizInit /\ [][QuizNext]_vars

QuizRetrySpec == QuizRetryInit /\ [][QuizNext]_vars

ScoreSpec == ScoreInit /\ [][ScoreNext]_vars

LevelSpec == LevelInit /\ [][ApplyProgression]_vars

BuildSpec == BuildInit /\ [][BuildSession]_vars

OptionsSpec == OptionsInit /\ [][ListOptions]_vars

(***************************************************************************)
(* Claims.                                                                *)
(***************************************************************************)

\* C1: whichever of the three triggers (Submit click, countdown, grace-delay
\* timeout) fire and in whatever order, one exam session inserts at most one
\* quiz_attempts row and its exam_sessions row is closed at most once.
C1_SubmitsAtMostOnce ==
    /\ BagCardinality(quiz_attempts) <= 1
    /\ closeCount <= 1

\* C2: one started quiz session writes at most one quiz_attempts row and
\* applies at most one profile points update, whichever of the Submit click
\* and the countdown's expiry call handleSubmitQuiz and in whatever order.
C2_QuizSubmitsAtMostOnce ==
    \A s \in 1..MaxSessions : attemptsOf[s] <= 1 /\ pointsUpdatesOf[s] <= 1

\* C3: once the updates of the recorded violations have returned and the two
\* counters add up to 3 or more, whatever the mix of kinds, the session is
\* flagged and an automatic submission has been scheduled.
C3_PooledThreshold ==
    /\ (/\ dbExamSession # NoRow
        /\ vTasks = EmptyBag
        /\ dbExamSession.tab_switches + dbExamSession.fullscreen_exits >= 3)
       => (dbExamSession.is_flagged /\ autoScheduled >= 1)
    /\ (/\ eMounted
        /\ examSession # NoSession
        /\ vTasks = EmptyBag
        /\ examSession.tab_switches + examSession.fullscreen_exits >= 3)
       => (examSession.is_flagged /\ autoScheduled >= 1)

\* C4: while fewer than 3 violation events in total have been recorded, the
\* session is flagged neither in the component state nor in the persisted row,
\* and no automatic submission has been scheduled.
C4_UnflaggedBelowThree ==
    (violationEvents.tab_switch + violationEvents.fullscreen_exit < 3)
    => /\ (examSession # NoSession => ~examSession.is_flagged)
       /\ (dbExamSession # NoRow => ~dbExamSession.is_flagged)
       /\ autoScheduled = 0
       /\ timeouts = EmptyBag

\* a session with two violations recorded, one of each kind, and both stored
C4_Witness ==
    /\ violationEvents.tab_switch = 1
    /\ violationEvents.fullscreen_exit = 1
    /\ vTasks = EmptyBag
    /\ dbExamSession # NoRow
    /\ dbExamSession.tab_switches + dbExamSession.fullscreen_exits = 2

\* C5: once flagged, always flagged, in the component state and in the
\* persisted is_flagged column.
C5_FlaggedIsMonotonic ==
    [][/\ (examSession # NoSession /\ examSession.is_flagged)
          => examSession'.is_flagged
       /\ (dbExamSession # NoRow /\ dbExamSession.is_flagged)
          => dbExamSession'.is_flagged]_vars

\* C6: crossing the threshold schedules the automatic submission once;
\* violations recorded while the session is flagged schedule no second one.
C6_OneAutoSubmit == autoScheduled <= 1

\* C7: once a submission has begun, or the component is unmounted, no
\* violation is recorded any more.
C7_NoViolationAfterEnd ==
    [][(submitBegun \/ ~eMounted) => violationEvents' = violationEvents]_vars

\* C8: after the student left an in-progress exam without submitting, no
\* handleSubmitExam callback runs and no quiz_attempts row is written.
C8_AbandonedWritesNothing ==
    leftWithoutSubmit => (~submitBegun /\ quiz_attempts = EmptyBag)

\* C9: with no update in flight, each counter of the ExamSession equals the
\* number of violation events of its kind.
C9_CountersCountEvents ==
    (eMounted /\ examSession # NoSession /\ vTasks = EmptyBag)
    => /\ examSession.tab_switches = violationEvents.tab_switch
       /\ examSession.fullscreen_exits = violationEvents.fullscreen_exit

\* C10: once a submission has begun the AnswerMap never changes.
C10_AnswersFrozenAfterSubmit ==
    [][submitBegun => answers' = answers]_vars

\* C11: a question counts as correct exactly when the sheet's answer for it is
\* its correct_answer, the percentage is 100 * correctCount / totalQuestions
\* rounded to the nearest integer (a half goes up, as Math.round does), and
\* totalPoints is the sum of the points of the correct questions.
C11_ComputeScore ==
    result # Null
    => LET right == {i \in DOMAIN args.questions :
                        /\ args.questions[i] \in DOMAIN args.answers
                        /\ args.answers[args.questions[i]]
                              = correct_answer[args.questions[i]]}
           total == Len(args.questions)
       IN  /\ result[1].correctCount = Cardinality(right)
           /\ total > 0
              => result[1].score = (200 * Cardinality(right) + total) \div (2 * total)
           /\ result[1].totalPoints
                = SumOver([i \in right |-> points[args.questions[i]]], right)

C13_Progression ==
    (result # Null /\ args.fn = "level")
    => LET newTotal == args.profile.total_points + args.totalPoints
           was == args.profile.current_level
       IN  /\ result[1].total_points = newTotal
           /\ (was = "beginner" /\ newTotal >= 500)
              => result[1].current_level = "intermediate"
           /\ (was = "intermediate" /\ newTotal >= 1500)
              => result[1].current_level = "advanced"
           /\ ~(was = "beginner" /\ newTotal >= 500)
              /\ ~(was = "intermediate" /\ newTotal >= 1500)
              => result[1].current_level = was

\* a beginner at 490 gains 10 and becomes intermediate, the gain alone being
\* far below the threshold
C13_Witness ==
    /\ result # Null /\ args.fn = "level"
    /\ args.profile = [total_points |-> 490, current_level |-> "beginner"]
    /\ args.totalPoints = 10
    /\ result[1] = [total_points |-> 500, current_level |-> "intermediate"]

LevelRank(l) == CASE l = "beginner" -> 1 [] l = "intermediate" -> 2 [] l = "advanced" -> 3

\* C14: across passing submissions, a retry submitted while the previous
\* submission's profile read and update are still in flight included, the
\* persisted total_points never decreases and the level never regresses.
C14_ProgressIsMonotonic ==
    [][/\ profile'.total_points >= profile.total_points
       /\ LevelRank(profile'.current_level) >= LevelRank(profile.current_level)]_vars

\* the quiz_attempts rows of failing submissions (scorePercentage < passing_score)
FailingAttempts ==
    LET F == {a \in BagToSet(quiz_attempts) : a.score < PassingScore}
    IN  [a \in F |-> CopiesIn(a, quiz_attempts)]

\* C15: every failing submission, whether submitted by the user, by the timer
\* or by the violation threshold, creates exactly one recommendation, which
\* references the lesson and has priority 10: once no write is in flight there
\* are as many such recommendations as failing attempts.
C15_FailingSubmissionRecommends ==
    (sTasks = EmptyBag /\ qTasks = EmptyBag)
    => /\ BagCardinality(recommendations) = BagCardinality(FailingAttempts)
       /\ \A r \in BagToSet(recommendations) :
             r.lesson_id = "lesson" /\ r.priority = 10

\* C16: when the countdown reaches the deadline and submits, the attempt is
\* scored from exactly the answers recorded up to that instant.
C16_DeadlineScoresRecordedAnswers ==
    [][(timeLeft = 1 /\ timeLeft' = 0 /\ sTasks' # sTasks)
       => BagIn([pc |-> "insert_attempt",
                 attempt |-> ExamAttempt(examQuestions, answers)], sTasks')]_vars

\* C17: the transition to the submitted state precedes the persistence calls:
\* when the attempt row of an exam is written, the page has already announced
\* the result and navigated (or is no longer shown).
C17_SubmittedBeforePersistence ==
    [][quiz_attempts' # quiz_attempts => (navPending \/ ~eMounted)]_vars

\* C18: Retry takes the quiz from the results view to the setup view with an
\* empty AnswerMap, cursor 0, score 0 and no deadline, and leaves the
\* quiz_attempts rows written so far as they are.
C18_RetryResets ==
    [][(ResultsViewShown /\ ~ResultsViewShown' /\ qMounted')
       => /\ SetupViewShown'
          /\ selectedAnswers' = EmptyAnswers
          /\ currentQuestionIndex' = 0
          /\ score' = 0
          /\ timeRemaining' = Null
          /\ quiz_attempts' = quiz_attempts]_vars

\* back in the setup view after a timed session whose attempt, all right, is
\* written
C18_Witness ==
    /\ SetupViewShown /\ sessionNo = 1 /\ timerEnabled
    /\ selectedAnswers = EmptyAnswers /\ timeRemaining = Null
    /\ \E a \in BagToSet(quiz_attempts) : a.score = 100

\* C19: for a pool of N questions and a numeric count, the session holds
\* exactly min(count, N) questions, each one of the pool and none twice; a
\* count above N gives the N questions of the pool.
C19_BuildSession ==
    (result # Null /\ args.fn = "build" /\ args.selectedQuestionCount # "all")
    => LET session == result[1]
           N == Len(args.allQuestions)
           count == ParseInt(args.selectedQuestionCount)
       IN  /\ Len(session) = IF count <= N THEN count ELSE N
           /\ \A i \in 1..Len(session) :
                 \E j \in 1..N : session[i] = args.allQuestions[j]
           /\ \A i, j \in 1..Len(session) : session[i] = session[j] => i = j

\* five of six questions, in an order that is not the pool's
C19_Witness ==
    /\ result # Null /\ args.fn = "build"
    /\ args.selectedQuestionCount = "5" /\ Len(args.allQuestions) = 6
    /\ result[1] = <<6, 2, 4, 1, 3>>

\* C20: with the count "all", the only one offered for pools under five
\* questions, a started session presents the questions of the pool in the
\* pool's order_index order, none dropped, duplicated or moved, from its start
\* to its end.
C20_AllKeepsPoolOrder ==
    quizStarted => quizQuestions = allQuestions

\* the second session of the page, after a retry, shows the second question
\* of the pool with the first one answered
C20_Witness ==
    /\ QuizViewShown /\ QuestionCountOptions(Len(allQuestions)) = {"all"}
    /\ sessionNo = 2
    /\ Len(quizQuestions) = 2 /\ currentQuestionIndex = 1
    /\ DOMAIN selectedAnswers = {1}

\* C21: for a pool of at least one question the select offers "all" and, of
\* 5, 10, 15 and 20, exactly the counts that do not exceed the pool size, each
\* value once.
C21_OfferedCounts ==
    (result # Null /\ args.fn = "options" /\ args.total >= 1)
    => LET options == result[1]
           offered == {options[i] : i \in 1..Len(options)}
       IN  /\ "all" \in offered
           /\ offered \subseteq {"all", "5", "10", "15", "20"}
           /\ "5" \in offered <=> 5 <= args.total
           /\ "10" \in offered <=> 10 <= args.total
           /\ "15" \in offered <=> 15 <= args.total
           /\ "20" \in offered <=> 20 <= args.total
           /\ Cardinality(offered) = Len(options)

\* a pool of exactly ten questions is offered "all", 5 and 10
C21_Witness ==
    /\ result # Null /\ args.fn = "options"
    /\ args.total = 10
    /\ result[1] = <<"all", "5", "10">>

\* C22: with an empty question pool no session starts in either variant: the
\* page stays in its setup state, no exam session is created and no
\* submission of the page writes an attempt.
C22_EmptyPoolNeverStarts ==
    /\ Len(examQuestions) = 0
       => (~examStarted /\ dbExamSession = NoRow /\ ~submitBegun)
    /\ Len(allQuestions) = 0
       => (~quizStarted /\ sessionNo = 0 /\ qTasks = EmptyBag)

\* C23: in a started session whose timer is disabled there is no deadline
\* (the remaining time is null), no countdown runs, and the timer has not
\* submitted the session; a session started after a retry is no exception.
C23_NoDeadlineWithoutTimer ==
    (quizStarted /\ ~timerEnabled)
    => /\ timeRemaining = Null
       /\ ~qInterval /\ ~qEffectPending
       /\ ~timerExpired

\* the second session of the page, started with the timer disabled after a
\* retry, was submitted by its Submit button
C23_Witness ==
    /\ sessionNo = 2 /\ quizStarted /\ ~timerEnabled
    /\ isSubmitted /\ attemptsOf[1] >= 1 /\ attemptsOf[2] >= 1

\* C24: while a session is in progress, in either variant, the cursor is the
\* index of one of the session's questions.
C24_CursorInRange ==
    /\ examStarted => currentQuestion \in 0..(Len(examQuestions) - 1)
    /\ (quizStarted /\ ~isSubmitted)
       => currentQuestionIndex \in 0..(Len(quizQuestions) - 1)

\* C25: a copy, paste or context-menu event during a secure exam leaves
\* tab_switches, fullscreen_exits and the flag as they are, in the page and in
\* the exam_sessions row, and neither starts nor schedules a submission.
C25_BlockedActionIsNoViolation ==
    [][(~actionBlocked /\ actionBlocked')
       => /\ examSession' = examSession
          /\ dbExamSession' = dbExamSession
          /\ vTasks' = vTasks
          /\ violationEvents' = violationEvents
          /\ sTasks' = sTasks /\ submitBegun' = submitBegun
          /\ timeouts' = timeouts /\ autoScheduled' = autoScheduled]_vars

\* the action was blocked in an exam that has two tab switches on record, is
\* not flagged and has no submission begun or scheduled
C25_Witness ==
    /\ actionBlocked /\ eMounted /\ examStarted
    /\ examSession # NoSession
    /\ examSession.tab_switches = 2 /\ ~examSession.is_flagged
    /\ dbExamSession.tab_switches = 2
    /\ ~submitBegun /\ autoScheduled = 0 /\ timeouts = EmptyBag

\* C26: when the fullscreen request of startExam is rejected and the
\* exam_sessions insert succeeds, the exam is in progress with its session
\* set, and the rejection is not counted as a violation.
C26_RejectedFullscreenStillStarts ==
    [][(dbExamSession = NoRow /\ dbExamSession' # NoRow /\ ~docFullscreen')
       => /\ examStarted' /\ examSession' # NoSession
          /\ dbExamSession'.is_active /\ dbExamSession'.fullscreen_exits = 0
          /\ violationEvents' = violationEvents
          /\ vTasks' = vTasks]_vars

\* an exam in progress outside full screen, the page never having been in
\* full screen, with no violation on record
C26_Witness ==
    /\ eMounted /\ examStarted /\ examSession # NoSession
    /\ ~docFullscreen /\ ~isFullscreen /\ ~fsEventPending
    /\ dbExamSession # NoRow
    /\ violationEvents = [tab_switch |-> 0, fullscreen_exit |-> 0]
    /\ timeLeft < ExamTicks

\* C27: the exam_sessions row is active with a null ended_at from its
\* creation until a submission closes it; every submission that completes, and
\* every navigation to the dashboard it makes, leaves the row closed (ended_at
\* set, is_active cleared); a closed row is never active again.
C27_SessionClosedAtSubmission ==
    /\ dbExamSession # NoRow
       => /\ dbExamSession.is_active <=> closeCount = 0
          /\ dbExamSession.ended_at = "null" <=> closeCount = 0
          /\ ~submitBegun => closeCount = 0
    /\ navPending => (dbExamSession # NoRow /\ ~dbExamSession.is_active)
    /\ (submitBegun /\ sTasks = EmptyBag)
       => (dbExamSession # NoRow /\ ~dbExamSession.is_active)

\* the session was flagged by a third tab switch, the submission that followed
\* has completed, and the row is closed with its counters kept
C27_Witness ==
    /\ submitBegun /\ sTasks = EmptyBag /\ vTasks = EmptyBag
    /\ dbExamSession # NoRow
    /\ dbExamSession.is_flagged /\ dbExamSession.tab_switches = 3
    /\ ~dbExamSession.is_active /\ dbExamSession.ended_at # "null"

\* the counter handleSecurityViolation(type) does not count in
OtherField(type) == IF type = "tab_switch" THEN "fullscreen_exits" ELSE "tab_switches"

\* C28: a violation of one kind leaves the counter of the other kind as it is,
\* in the ExamSession the page holds and in the exam_sessions row: a
\* fullscreen exit never changes tab_switches, a tab switch never changes
\* fullscreen_exits.
C28_OtherCounterUnchanged ==
    [][\A t \in BagToSet(vTasks) :
          vTasks' = vTasks (-) SetToBag({t})
          => /\ examSession'[OtherField(t.type)] = examSession[OtherField(t.type)]
             /\ dbExamSession'[OtherField(t.type)] = dbExamSession[OtherField(t.type)]]_vars

\* C29: one passing submission raises the level by at most one tier: a
\* beginner whose new total is at least 1500 becomes intermediate, not
\* advanced, and the next passing submission makes them advanced.
C29_OneTierPerSubmission ==
    (result # Null /\ args.fn = "level")
    => LET newTotal == args.profile.total_points + args.totalPoints
           was == args.profile.current_level
           now == result[1].current_level
       IN  /\ LevelRank(now) - LevelRank(was) \in {0, 1}
           /\ (was = "beginner" /\ newTotal >= 1500)
              => /\ now = "intermediate"
                 /\ \A gained \in {5 * k : k \in 0..4} :
                       UpdatedProfile(result[1], gained).current_level = "advanced"

\* a beginner at 1495 gains 5: the row written holds 1500 points and the level
\* intermediate
C29_Witness ==
    /\ result # Null /\ args.fn = "level"
    /\ args.profile = [total_points |-> 1495, current_level |-> "beginner"]
    /\ args.totalPoints = 5
    /\ result[1] = [total_points |-> 1500, current_level |-> "intermediate"]

\* C30: a submission the countdown did not make starts from the last question
\* with every question of the session answered; only a submission made by the
\* countdown scores a session with unanswered questions.
C30_ExplicitSubmitIsFullyAnswered ==
    [][(BagCardinality(qTasks') > BagCardinality(qTasks) /\ timerExpired' = timerExpired)
       => /\ currentQuestionIndex = Len(quizQuestions) - 1
          /\ DOMAIN selectedAnswers = {quizQuestions[i] : i \in 1..Len(quizQuestions)}
          /\ BagIn(QuizSubmitTask(CurrentQuizRender), qTasks')]_vars

\* an untimed session was submitted from its last question with both questions
\* answered, one of them wrongly, and its writes are in flight
C30_Witness ==
    /\ isSubmitted /\ ~timerEnabled /\ ~timerExpired
    /\ qTasks # EmptyBag
    /\ Cardinality(DOMAIN selectedAnswers) = 2 /\ score = 50

====
